---- MODULE Spec2Model ----
(***************************************************************************)
(* Model of the country-app front end: the useCountries hook               *)
(* (src/src/hooks/useCountries.ts) as driven by the Home page              *)
(* (src/src/pages/Home.tsx), and the client-side filterCountries function. *)
(*                                                                         *)
(* A JavaScript string is a sequence of one-character strings, so that     *)
(* toLowerCase, trim, includes, startsWith and replace are computed.       *)
(* A JavaScript object with optional fields is a function whose DOMAIN     *)
(* holds the fields that are present.                                      *)
(***************************************************************************)
EXTENDS Integers, Sequences, FiniteSets, TLC

VARIABLES
    \* ---- useCountries state (useCountries.ts:16-26)
    countries, allCountries, loading, error, page, hasMore, isSearching,
    currentFilters, loadingRef,
    \* ---- Home state (Home.tsx:14-16)
    useInfiniteScroll, homeFilters, currentSearchTerm,
    \* ---- environment of the hook: mount effect done, requests in flight,
    \*      history of what was issued and of the last completion
    mounted, inflight, issued, lastDone,
    \* ---- a single application of filterCountries to given inputs
    fpc, fCountries, fFilters, fResult,
    \* ---- a single application of parseUtcOffsetMinutes to a given string
    ppc, pOffset, pResult,
    \* ---- a single rendering of a country's local time: the country, the
    \*      clock and time zone of the host, what is displayed
    cpc, cCountry, cNow, cHost, cShown,
    \* ---- CountryDetail: the route's code, the component's state, the
    \*      getCountry requests in flight, how many were issued, and how the
    \*      request for the present code ended
    dCode, dCountry, dLoading, dError, dInflight, dIssued, dOutcome

hookVars == <<countries, allCountries, loading, error, page, hasMore,
              isSearching, currentFilters, loadingRef, useInfiniteScroll,
              homeFilters, currentSearchTerm, mounted, inflight, issued,
              lastDone>>
filterVars == <<fpc, fCountries, fFilters, fResult>>
parseVars == <<ppc, pOffset, pResult>>
clockVars == <<cpc, cCountry, cNow, cHost, cShown>>
detailVars == <<dCode, dCountry, dLoading, dError, dInflight, dIssued,
                dOutcome>>
callVars == <<filterVars, parseVars, clockVars, detailVars>>
vars == <<hookVars, callVars>>

-----------------------------------------------------------------------------
(* JavaScript strings *)

UpperChars == <<"A","B","C","D","E","F","G","H","I","J","K","L","M",
                "N","O","P","Q","R","S","T","U","V","W","X","Y","Z">>
LowerChars == <<"a","b","c","d","e","f","g","h","i","j","k","l","m",
                "n","o","p","q","r","s","t","u","v","w","x","y","z">>

UpperToLower ==
    [c \in {UpperChars[i] : i \in 1..Len(UpperChars)} |->
        LowerChars[CHOOSE i \in 1..Len(UpperChars) : UpperChars[i] = c]]

\* String.prototype.toLowerCase on one character
LowerChar(c) == IF c \in DOMAIN UpperToLower THEN UpperToLower[c] ELSE c

\* String.prototype.toLowerCase
ToLowerCase(s) == [i \in 1..Len(s) |-> LowerChar(s[i])]

IsSpace(c) == c \in {" ", "\t", "\n"}

\* String.prototype.trim: drops the leading and the trailing white space
Trim(s) ==
    LET nonSpace == {i \in 1..Len(s) : ~IsSpace(s[i])}
    IN  IF nonSpace = {} THEN <<>>
        ELSE LET lo == CHOOSE i \in nonSpace : \A j \in nonSpace : i <= j
                 hi == CHOOSE i \in nonSpace : \A j \in nonSpace : i >= j
             IN  SubSeq(s, lo, hi)

\* String.prototype.includes
Includes(s, t) ==
    \E i \in 0..(Len(s) - Len(t)) : SubSeq(s, i + 1, i + Len(t)) = t

\* String.prototype.startsWith
StartsWith(s, t) ==
    Len(t) <= Len(s) /\ SubSeq(s, 1, Len(t)) = t

\* String.prototype.replace with a string pattern: only the FIRST occurrence
\* of pat is replaced
ReplaceFirst(s, pat, rep) ==
    LET occ == {i \in 0..(Len(s) - Len(pat)) :
                    SubSeq(s, i + 1, i + Len(pat)) = pat}
    IN  IF occ = {} THEN s
        ELSE LET i == CHOOSE k \in occ : \A j \in occ : k <= j
             IN  SubSeq(s, 1, i) \o rep \o SubSeq(s, i + Len(pat) + 1, Len(s))

\* `obj.key && ...` on an optional string field: present and not ""
Truthy(obj, key) == key \in DOMAIN obj /\ obj[key] # <<>>

-----------------------------------------------------------------------------
(* filterCountries, useCountries.ts:29-95 *)

utc == <<"u","t","c">>
colon == <<":">>

\* a slip: the colon is left in the comparison key
OffsetWithColon(tzLower) == ReplaceFirst(tzLower, utc, <<>>)

\* filterOffset and countryOffset, lines 76-81:
\* .replace("utc", "").replace(":", "") on a lower-cased, trimmed string
TimezoneOffset(tzLower) ==
    ReplaceFirst(ReplaceFirst(tzLower, utc, <<>>), colon, <<>>)

\* the callback of country.timezones.some(...), lines 61-85;
\* filterTimezone is already lower-cased and trimmed (line 60)
TimezoneEntryMatches(tz, filterTimezone) ==
    LET countryTz == Trim(ToLowerCase(tz))
    IN  IF countryTz = filterTimezone THEN TRUE
        ELSE IF Includes(countryTz, filterTimezone)
                \/ Includes(filterTimezone, countryTz) THEN TRUE
        ELSE IF StartsWith(filterTimezone, utc) /\ StartsWith(countryTz, utc)
             THEN LET filterOffset == TimezoneOffset(filterTimezone)
                      countryOffset == TimezoneOffset(countryTz)
                  IN  filterOffset = countryOffset
        ELSE FALSE

\* a slip: only the first entry of timezones is looked at
FirstTimezoneOnly(timezones, filterTimezone) ==
    Len(timezones) > 0 /\ TimezoneEntryMatches(timezones[1], filterTimezone)

\* country.timezones.some(...) of lines 61-85
HasMatchingTimezone(timezones, filterTimezone) ==
    \E i \in 1..Len(timezones) :
        TimezoneEntryMatches(timezones[i], filterTimezone)

\* a slip: regions compared without regard to letter case
RegionDiffersAnyCase(countryRegion, filterRegion) ==
    ToLowerCase(countryRegion) # ToLowerCase(filterRegion)

\* country.region !== filters.region, line 50
RegionDiffers(countryRegion, filterRegion) == countryRegion # filterRegion

\* the predicate given to countries.filter, lines 31-92
KeepCountry(country, filters) ==
    IF Truthy(filters, "name")
       /\ ~Includes(ToLowerCase(country.name), ToLowerCase(filters.name))
    THEN FALSE
    ELSE IF Truthy(filters, "capital") /\ Truthy(country, "capital")
            /\ ~Includes(ToLowerCase(country.capital),
                         ToLowerCase(filters.capital))
    THEN FALSE
    ELSE IF Truthy(filters, "region")
            /\ RegionDiffers(country.region, filters.region)
    THEN FALSE
    ELSE IF Truthy(filters, "timezone") /\ Len(country.timezones) > 0
            /\ ~HasMatchingTimezone(country.timezones,
                                    Trim(ToLowerCase(filters.timezone)))
    THEN FALSE
    ELSE TRUE

\* a slip: without any criterion nothing is returned
NoCriteriaNoResult(cs, filters) ==
    IF DOMAIN filters = {} THEN <<>>
    ELSE SelectSeq(cs, LAMBDA country : KeepCountry(country, filters))

\* filterCountries(countries, filters), lines 29-95
FilterCountries(cs, filters) ==
    SelectSeq(cs, LAMBDA country : KeepCountry(country, filters))

-----------------------------------------------------------------------------
(* Strings used by the inputs *)

str_a == <<"a">>
str_b == <<"b">>
str_Ab == <<"A","b">>
str_cA == <<"c","A">>
str_x == <<"x">>
str_Asia == <<"A","s","i","a">>
str_asia == <<"a","s","i","a">>
str_Europe == <<"E","u","r","o","p","e">>
tz_UTC01 == <<"U","T","C","+","0","1">>
tz_utc01_padded == <<" ","u","t","c","+","0","1"," ">>
tz_UTC0100 == <<"U","T","C","+","0","1",":","0","0">>
tz_utc0100_padded == <<" ","u","T","c","+","0","1",":","0","0"," ">>
tz_UTC0100_compact == <<"U","T","C","+","0","1","0","0">>
tz_UTC0200 == <<"U","T","C","+","0","2",":","0","0">>
tz_UTC0900 == <<"U","T","C","+","0","9",":","0","0">>

\* an object holding the fields of opts that are present; opts maps each
\* field to <<>> (absent) or <<value>> (present)
MkObject(opts) ==
    [k \in {f \in DOMAIN opts : opts[f] # <<>>} |-> opts[k][1]]

EmptyObject == MkObject([name |-> <<>>])

-----------------------------------------------------------------------------
(* One application of filterCountries to inputs drawn from bounded sets *)

\* longest input list given to filterCountries
MaxLen == 2

\* Country records (types.ts Country; the opaque pass-through fields are left
\* out): with and without capital, with an empty capital, with an empty
\* timezone list, with the searched timezone first and not first
CountryPool ==
    { [code |-> 1, name |-> str_Ab, capital |-> str_cA, region |-> str_Asia,
       timezones |-> <<tz_UTC0100>>],
      [code |-> 2, name |-> str_a, region |-> str_Asia,
       timezones |-> <<>>],
      [code |-> 3, name |-> str_cA, capital |-> <<>>, region |-> str_asia,
       timezones |-> <<tz_utc0100_padded>>],
      [code |-> 4, name |-> str_b, capital |-> str_a, region |-> str_Europe,
       timezones |-> <<tz_UTC0200, tz_UTC0100>>],
      [code |-> 5, name |-> str_x, capital |-> str_x, region |-> str_Europe,
       timezones |-> <<tz_UTC0200>>] }

RECURSIVE ListsUpTo(_, _)
ListsUpTo(S, n) ==
    IF n = 0 THEN {<<>>}
    ELSE LET shorter == ListsUpTo(S, n - 1)
         IN  shorter \cup {Append(l, x) : l \in shorter, x \in S}

CountryLists == ListsUpTo(CountryPool, MaxLen)

\* SearchParams (types.ts:27-32): every combination of absent/present fields
CriteriaPool ==
    { MkObject([name |-> n, capital |-> c, region |-> r, timezone |-> t]) :
        n \in {<<>>, <<str_a>>, <<str_b>>},
        c \in {<<>>, <<str_a>>},
        r \in {<<>>, <<str_Asia>>},
        t \in {<<>>, <<tz_UTC01>>, <<tz_utc01_padded>>, <<tz_UTC0900>>,
                <<tz_UTC0100_compact>>} }

FilterInputInit ==
    /\ fpc = "input"
    /\ fCountries \in CountryLists
    /\ fFilters \in CriteriaPool
    /\ fResult = <<>>

FilterIdle ==
    /\ fpc = "idle"
    /\ fCountries = <<>>
    /\ fFilters = EmptyObject
    /\ fResult = <<>>

-----------------------------------------------------------------------------
(* parseUtcOffsetMinutes, CountryCard (part_001:5-17); the two CountryDetail *)
(* sources repeat the same function (part_002:43-55, part_003:8-20)          *)

LowerToUpper ==
    [c \in {LowerChars[i] : i \in 1..Len(LowerChars)} |->
        UpperChars[CHOOSE i \in 1..Len(LowerChars) : LowerChars[i] = c]]

\* String.prototype.toUpperCase on one character
UpperChar(c) == IF c \in DOMAIN LowerToUpper THEN LowerToUpper[c] ELSE c

\* String.prototype.toUpperCase
ToUpperCase(s) == [i \in 1..Len(s) |-> UpperChar(s[i])]

\* String.prototype.slice(start)
Slice(s, start) == SubSeq(s, start + 1, Len(s))

UTC == <<"U","T","C">>
GMT == <<"G","M","T">>
Zulu == <<"Z">>

Digits == <<"0","1","2","3","4","5","6","7","8","9">>

\* \d of the pattern
IsDigit(c) == \E i \in 1..Len(Digits) : Digits[i] = c

DigitValue(c) == (CHOOSE i \in 1..Len(Digits) : Digits[i] = c) - 1

\* parseInt(s, 10) on a string of digits
RECURSIVE ParseInt(_)
ParseInt(s) ==
    IF s = <<>> THEN 0
    ELSE ParseInt(SubSeq(s, 1, Len(s) - 1)) * 10 + DigitValue(s[Len(s)])

\* number | null
Null == [valid |-> FALSE, minutes |-> 0]
Number(n) == [valid |-> TRUE, minutes |-> n]

\* the `$` of the pattern: nothing is left after what was consumed
EndOfInput(str, consumed) == consumed = Len(str)

\* One way through /^([+-])(\d{1,2})(?::?(\d{2}))?$/: the sign, hoursLen
\* digits and, when withMinutes, colonLen colons and two digits
Attempt(str, hoursLen, withMinutes, colonLen) ==
    LET minutesAt == 1 + hoursLen + colonLen
        consumed == IF withMinutes THEN minutesAt + 2 ELSE 1 + hoursLen
    IN  /\ consumed <= Len(str)
        /\ str[1] \in {"+", "-"}
        /\ \A i \in 2..(1 + hoursLen) : IsDigit(str[i])
        /\ withMinutes =>
              /\ colonLen = 1 => str[minutesAt] = ":"
              /\ IsDigit(str[minutesAt + 1])
              /\ IsDigit(str[minutesAt + 2])
        /\ EndOfInput(str, consumed)

\* the ways through the pattern in the order the matcher tries them: the
\* quantifiers {1,2} and ? are greedy
Attempts ==
    << [hoursLen |-> 2, withMinutes |-> TRUE,  colonLen |-> 1],
       [hoursLen |-> 2, withMinutes |-> TRUE,  colonLen |-> 0],
       [hoursLen |-> 2, withMinutes |-> FALSE, colonLen |-> 0],
       [hoursLen |-> 1, withMinutes |-> TRUE,  colonLen |-> 1],
       [hoursLen |-> 1, withMinutes |-> TRUE,  colonLen |-> 0],
       [hoursLen |-> 1, withMinutes |-> FALSE, colonLen |-> 0] >>

\* str.match(/^([+-])(\d{1,2})(?::?(\d{2}))?$/): the groups m[1], m[2], m[3]
\* of the first way that succeeds; m[3] is <<>> when the group did not take
\* part
MatchOffset(str) ==
    LET ways == {k \in 1..Len(Attempts) :
                    Attempt(str, Attempts[k].hoursLen,
                            Attempts[k].withMinutes, Attempts[k].colonLen)}
    IN  IF ways = {} THEN [matched |-> FALSE, m1 |-> "", m2 |-> <<>>,
                           m3 |-> <<>>]
        ELSE LET a == Attempts[CHOOSE k \in ways : \A j \in ways : k <= j]
                 minutesAt == 1 + a.hoursLen + a.colonLen
             IN  [matched |-> TRUE,
                  m1 |-> str[1],
                  m2 |-> SubSeq(str, 2, 1 + a.hoursLen),
                  m3 |-> IF a.withMinutes
                         THEN SubSeq(str, minutesAt + 1, minutesAt + 2)
                         ELSE <<>>]

\* a slip: the sign is not looked at
AlwaysPositive(m1) == 1

\* m[1] === "-" ? -1 : 1
SignOf(m1) == IF m1 = "-" THEN -1 ELSE 1

\* the two prefix tests of lines 8-9, one after the other
StripPrefixes(str) ==
    LET afterUtc == IF StartsWith(str, UTC) THEN Slice(str, 3) ELSE str
    IN  IF StartsWith(afterUtc, GMT) THEN Slice(afterUtc, 3) ELSE afterUtc

\* parseUtcOffsetMinutes(offset)
ParseUtcOffsetMinutes(offset) ==
    LET str == ToUpperCase(Trim(offset))
    IN  IF str = UTC \/ str = GMT \/ str = Zulu THEN Number(0)
        ELSE LET rest == StripPrefixes(str)
             IN  IF rest = <<>> THEN Number(0)
                 ELSE LET m == MatchOffset(rest)
                      IN  IF ~m.matched THEN Null
                          ELSE LET sign == SignOf(m.m1)
                                   hours == ParseInt(m.m2)
                                   minutes == IF m.m3 # <<>>
                                              THEN ParseInt(m.m3) ELSE 0
                               IN  Number(sign * (hours * 60 + minutes))

-----------------------------------------------------------------------------
(* One application of parseUtcOffsetMinutes to a string drawn from a pool *)

OneDigit(n) == <<Digits[n + 1]>>
TwoDigits(n) == <<Digits[(n \div 10) + 1], Digits[(n % 10) + 1]>>

HourValues == {0, 5, 8, 9, 12, 23, 99}
MinuteValues == {0, 30, 59, 99}

\* The offsets written as [UTC|GMT] sign hours [[:]minutes]: each form holds
\* the numbers its string is written from
OffsetForms ==
    { f \in [prefix : {<<>>, UTC, GMT}, negative : BOOLEAN,
             hours : HourValues, wide : BOOLEAN, withMinutes : BOOLEAN,
             colon : BOOLEAN, minutes : MinuteValues] :
        /\ f.hours >= 10 => f.wide
        /\ ~f.withMinutes => (f.minutes = 0 /\ ~f.colon) }

FormString(f) ==
    f.prefix
    \o (IF f.negative THEN <<"-">> ELSE <<"+">>)
    \o (IF f.wide THEN TwoDigits(f.hours) ELSE OneDigit(f.hours))
    \o (IF f.colon THEN <<":">> ELSE <<>>)
    \o (IF f.withMinutes THEN TwoDigits(f.minutes) ELSE <<>>)

FormMinutes(f) ==
    (IF f.negative THEN -1 ELSE 1) * (f.hours * 60 + f.minutes)

\* a string as it is, in lower case, and with white space around it
Written(s) == {s, ToLowerCase(s), <<" ">> \o s \o <<"\t", " ">>}

off_5 == <<"5">>
off_0530 == <<"0","5",":","3","0">>
off_garbage == <<"g","a","r","b","a","g","e">>
off_plus == <<"+">>
off_plus_x == <<"+","0","x">>
off_plus_space_5 == <<"+"," ","5">>
off_plus_plus_5 == <<"+","+","5">>
off_plus_5_colon == <<"+","0","5",":">>
off_plus_5_colon_3 == <<"+","0","5",":","3">>
off_plus_5_colon_colon_30 == <<"+","0","5",":",":","3","0">>
off_plus_053000 == <<"+","0","5",":","3","0",":","0","0">>
off_plus_12345 == <<"+","1","2","3","4","5">>
off_plus_123_colon_00 == <<"+","1","2","3",":","0","0">>
off_plus_05 == <<"+","0","5">>

\* strings that are not of the form: no sign, letters, several colons, too
\* many digits, and two prefixes one after the other
Malformed ==
    { off_5, off_0530, off_garbage, off_plus, off_plus_x, off_plus_space_5,
      off_plus_plus_5, off_plus_5_colon, off_plus_5_colon_3,
      off_plus_5_colon_colon_30, off_plus_053000, off_plus_12345,
      off_plus_123_colon_00,
      UTC \o off_5, GMT \o off_garbage, UTC \o off_plus_053000,
      UTC \o <<" ">> \o off_plus_05, Zulu \o off_plus_05,
      UTC \o GMT, GMT \o UTC, UTC \o UTC, GMT \o GMT,
      UTC \o GMT \o off_plus_05, GMT \o UTC \o off_plus_05,
      UTC \o UTC \o off_plus_05, GMT \o GMT \o off_plus_05 }

OffsetStrings ==
    UNION { Written(s) :
              s \in {FormString(f) : f \in OffsetForms}
                    \cup Malformed \cup {UTC, GMT, Zulu, <<>>} }

ParseInputInit ==
    /\ ppc = "input"
    /\ pOffset \in OffsetStrings
    /\ pResult = Null

ParseIdle ==
    /\ ppc = "idle"
    /\ pOffset = <<>>
    /\ pResult = Null

-----------------------------------------------------------------------------
(* timeForOffset and its call sites: CountryCard (part_001:21-52) and the   *)
(* two CountryDetail sources (part_002:57-71 and 194-204, part_003:21-35   *)
(* and 240-252)                                                            *)

MsPerMinute == 60000
MsPerDay == 24 * 60 * MsPerMinute

\* The time zone of the host: std minutes east of UTC, and dst minutes east
\* of UTC for the instants from `from` up to `until`
HostOffsetAt(host, ms) ==
    IF host.from <= ms /\ ms < host.until THEN host.dst ELSE host.std

\* Date.prototype.getTimezoneOffset: UTC minus local time, in minutes
GetTimezoneOffset(host, ms) == 0 - HostOffsetAt(host, ms)

\* a displayed text that is not a formatted time
Plain(text) ==
    [text |-> text, day |-> <<>>, hour |-> 0, minute |-> 0, period |-> ""]

\* Date.prototype.toLocaleString("en-US", {..., hour12: true}): the fields
\* of the host's local time at the instant ms; the day (from which year,
\* weekday, month and day of month are written) only when the options ask
\* for a date
ToLocaleString(ms, host, withDate) ==
    LET local == ms + HostOffsetAt(host, ms) * MsPerMinute
        minuteOfDay == (local \div MsPerMinute) % (24 * 60)
        hour24 == minuteOfDay \div 60
    IN  [text |-> "time",
         day |-> IF withDate THEN <<local \div MsPerDay>> ELSE <<>>,
         hour |-> IF hour24 % 12 = 0 THEN 12 ELSE hour24 % 12,
         minute |-> minuteOfDay % 60,
         period |-> IF hour24 < 12 THEN "AM" ELSE "PM"]

\* timeForOffset(offsetStr) on a host whose clock reads now
TimeForOffset(offsetStr, now, host, withDate) ==
    LET minutesOffset == ParseUtcOffsetMinutes(offsetStr)
    IN  IF ~minutesOffset.valid THEN Plain("null")
        ELSE LET utcMs == now + GetTimezoneOffset(host, now) * MsPerMinute
                 target == utcMs + minutesOffset.minutes * MsPerMinute
             IN  ToLocaleString(target, host, withDate)

\* value || "N/A"
OrNA(value) == IF value.text \in {"null", ""} THEN Plain("N/A") ELSE value

\* {value} in JSX: null is rendered as nothing
Rendered(value) == IF value.text = "null" THEN Plain("") ELSE value

\* country.timezones, [] when the field is absent
TimezonesOf(country) ==
    IF "timezones" \in DOMAIN country THEN country.timezones ELSE <<>>

\* the effect of CountryCard, part_001:42-52: what localTime is set to
CardLocalTime(country, now, host) ==
    LET timezones == TimezonesOf(country)
    IN  IF Len(timezones) = 0 \/ timezones[1] = <<>> THEN Plain("N/A")
        ELSE OrNA(TimeForOffset(timezones[1], now, host, FALSE))

\* the "Current Local Time" section of CountryDetail, part_003:240-252
DetailLocalTimes(country, now, host) ==
    LET timezones == TimezonesOf(country)
    IN  [k \in 1..Len(timezones) |->
            OrNA(TimeForOffset(timezones[k], now, host, TRUE))]

\* the "Current Local Time" section of the other CountryDetail source,
\* part_002:194-204
DetailLocalTimesBare(country, now, host) ==
    LET timezones == TimezonesOf(country)
    IN  [k \in 1..Len(timezones) |->
            Rendered(TimeForOffset(timezones[k], now, host, TRUE))]

-----------------------------------------------------------------------------
(* One rendering of a country's local time on a drawn host *)

\* the instant at which the host with daylight saving time changes its offset
Transition == (5 * 24 + 1) * 60 * MsPerMinute

HostUtc == [std |-> 0, dst |-> 0, from |-> 0, until |-> 0]

HostZones ==
    { HostUtc,
      [std |-> 330, dst |-> 330, from |-> 0, until |-> 0],
      [std |-> 0 - 480, dst |-> 0 - 480, from |-> 0, until |-> 0],
      [std |-> 60, dst |-> 120, from |-> Transition,
       until |-> Transition + 3 * MsPerDay] }

Instants ==
    { Transition + d * MsPerMinute + 17250 : d \in {0 - 4000, 0 - 90, 0 - 30, 30, 90} }

tz_UTC0530 == UTC \o <<"+","0","5",":","3","0">>
tz_UTC_minus_0800 == UTC \o <<"-","0","8",":","0","0">>
tz_plus_09 == <<"+","0","9">>

ClockCountries ==
    { EmptyObject } \cup
    { MkObject([timezones |-> <<t>>]) :
        t \in { <<>>, << <<>> >>, <<UTC>>, <<tz_UTC0530>>,
                <<tz_UTC_minus_0800, off_garbage>>, <<off_garbage>>,
                <<off_5, tz_plus_09>>, <<tz_utc0100_padded>>,
                <<UTC \o GMT \o off_plus_05>>, <<tz_UTC0200>> } }

ClockInputInit ==
    /\ cpc = "input"
    /\ cCountry \in ClockCountries
    /\ cNow \in Instants
    /\ cHost \in HostZones
    /\ cShown = <<>>

ClockIdle ==
    /\ cpc = "idle"
    /\ cCountry = EmptyObject
    /\ cNow = 0
    /\ cHost = HostUtc
    /\ cShown = <<>>

-----------------------------------------------------------------------------
(* The backend (an external collaborator, countries.ts) *)

\* getCountries(pageNum, 20): the page size the hook asks for and compares
\* the answer's length with
PageLimit == 20

\* number of records the backend holds
NumCountries == 41

\* requests (page loads and searches) the hook may issue in one run
MaxRequests == 3

BackendNames == <<str_a, str_Ab, str_x>>
BackendCapitals == <<str_a, str_x>>
BackendRegions == <<str_Asia, str_Europe>>
BackendTimezones == <<(<<tz_UTC0100>>), (<<>>), (<<tz_UTC0200, tz_UTC0100>>),
                      (<<tz_UTC0200>>)>>

\* the i-th record of the backend; every fifth record has no capital
BackendCountry(i) ==
    LET base == [code |-> i,
                 name |-> BackendNames[(i % 3) + 1],
                 region |-> BackendRegions[(i % 2) + 1],
                 timezones |-> BackendTimezones[(i % 4) + 1]]
    IN  IF i % 5 = 0 THEN base
        ELSE base @@ ("capital" :> BackendCapitals[(i % 2) + 1])

\* The lists the hook holds (countries, allCountries, the answers of the
\* backend) are kept as the lists of the records' codes: every record of the
\* hook comes from the backend, where the code identifies it (types.ts:2).
Records(codes) == [i \in 1..Len(codes) |-> BackendCountry(codes[i])]
Codes(records) == [i \in 1..Len(records) |-> records[i].code]

\* GET /countries?page=&limit= : the pages are disjoint and in code order
BackendPage(pageNum) ==
    LET first == (pageNum - 1) * PageLimit + 1
        last == IF pageNum * PageLimit < NumCountries
                THEN pageNum * PageLimit ELSE NumCountries
    IN  [i \in 1..(IF last >= first THEN last - first + 1 ELSE 0) |->
            first + i - 1]

\* GET /countries/search : what the server answers is its own business; the
\* answers tried are no row, and two rows of different pages
BackendSearchResults == { <<>>, <<3, 22>> }

-----------------------------------------------------------------------------
(* What Home hands to the hook *)

\* what the user may type or select (FilterBar.tsx:13 and :59 offer
\* "UTC+01:00" and "Asia")
SearchTerms == {<<>>, str_a}
RegionChoices == {<<>>, str_Asia}
TimezoneChoices == {<<>>, tz_UTC0100}

With(obj, key, val) ==
    [k \in DOMAIN obj \cup {key} |-> IF k = key THEN val ELSE obj[k]]
Without(obj, key) == [k \in DOMAIN obj \ {key} |-> obj[k]]

\* { ...filters, name: term, capital: term }, lines 42-46, 74-78, 105-109
SearchParamsFor(filters, term) ==
    With(With(filters, "name", term), "capital", term)

\* the filters Home can hold: region and timezone, each absent or chosen
HomeFilterChoices ==
    { MkObject([region |-> r, timezone |-> t]) :
        r \in {<<>>} \cup {<<x>> : x \in RegionChoices \ {<<>>}},
        t \in {<<>>} \cup {<<x>> : x \in TimezoneChoices \ {<<>>}} }

\* every criteria record Home can hand to search: its filters, alone or with
\* the search term as name and capital (lines 47, 51, 79, 81, 111, 114)
HomeSearchParams ==
    HomeFilterChoices
        \cup { SearchParamsFor(f, term) :
                    f \in HomeFilterChoices, term \in SearchTerms }

\* the codes of the backend's records that filterCountries keeps, for each
\* criteria record: KeepCountry is evaluated once per record and criteria
KeptCodes ==
    [params \in HomeSearchParams |->
        {i \in 1..NumCountries : KeepCountry(BackendCountry(i), params)}]

\* filterCountries(list, params) on a list of the backend's records held as
\* codes: Codes(FilterCountries(Records(codes), params))
FilterCodes(codes, params) ==
    SelectSeq(codes, LAMBDA code : code \in KeptCodes[params])

-----------------------------------------------------------------------------
(* useCountries, useCountries.ts:15-221 *)

NoError == "null"
FetchError == "Failed to fetch countries"      \* countries.ts:39-43
SearchError == "Failed to search countries"    \* countries.ts:57-61

NoEvent == [ev |-> "none"]

\* a slip: the in-flight guard is left out
NeverBlocked == FALSE

\* `if (loadingRef.current) return;` of loadCountries, line 99
LoadBlocked == loadingRef

\* `if (loadingRef.current) return;` of search, line 143
SearchBlocked == loadingRef

\* loadCountries(pageNum, append) up to its await, lines 98-106; the
\* continuation keeps the `countries` of the render that made the callback
LoadCountries(pageNum, append) ==
    IF LoadBlocked
    THEN UNCHANGED <<loadingRef, loading, error, inflight, issued>>
    ELSE /\ loadingRef' = TRUE
         /\ loading' = TRUE
         /\ error' = NoError
         /\ inflight' = Append(inflight,
                [kind |-> "page", pageNum |-> pageNum, append |-> append,
                 countries |-> countries])
         /\ issued' = [issued EXCEPT !.pages = @ + 1]

\* search(params) up to its await, lines 142-153; the continuation keeps the
\* `allCountries` of the render that made the callback
Search(params) ==
    IF SearchBlocked
    THEN UNCHANGED <<loadingRef, loading, error, isSearching, currentFilters,
                     inflight, issued, countries, allCountries, page, hasMore>>
    ELSE /\ loadingRef' = TRUE
         /\ loading' = TRUE
         /\ error' = NoError
         /\ isSearching' = TRUE
         /\ currentFilters' = params
         /\ inflight' = Append(inflight,
                [kind |-> "search", params |-> params,
                 allCountries |-> allCountries])
         /\ issued' = [issued EXCEPT !.searches = @ + 1]
         /\ UNCHANGED <<countries, allCountries, page, hasMore>>

\* the condition of loadMore(), line 192
LoadMoreAllowed == ~loadingRef /\ hasMore /\ ~isSearching

\* loadMore(), lines 191-197
LoadMore ==
    /\ IF LoadMoreAllowed
       THEN /\ page' = page + 1
            /\ LoadCountries(page + 1, TRUE)
       ELSE UNCHANGED <<page, loadingRef, loading, error, inflight, issued>>
    /\ UNCHANGED <<countries, allCountries, hasMore, isSearching,
                   currentFilters>>

\* reset(), lines 199-206
Reset ==
    /\ countries' = allCountries
    /\ currentFilters' = EmptyObject
    /\ page' = 1
    /\ hasMore' = TRUE
    /\ isSearching' = FALSE
    /\ error' = NoError
    /\ UNCHANGED <<allCountries, loadingRef, loading, inflight, issued>>

RemoveAt(seq, i) == SubSeq(seq, 1, i - 1) \o SubSeq(seq, i + 1, Len(seq))

\* the list shown after a page answer, lines 119-126
CountriesAfterLoad(req, newCountries) ==
    IF req.append THEN req.countries \o newCountries ELSE newCountries

\* a slip: the answer of the backend is shown whatever it is
BackendResultsOnly(req, searchResults) == searchResults

\* the list shown after a search answer, lines 157-169
CountriesAfterSearch(req, searchResults) ==
    IF Truthy(req.params, "timezone") /\ Len(searchResults) = 0
       /\ Len(req.allCountries) > 0
    THEN FilterCodes(req.allCountries, req.params)
    ELSE searchResults

\* a slip: a failed search leaves the list as it is
NoLocalFallback(req) == countries

\* the list shown after a failed search, lines 175-178
CountriesAfterSearchFailure(req) ==
    IF Len(req.allCountries) > 0
    THEN FilterCodes(req.allCountries, req.params)
    ELSE countries

\* the error after a failed search, lines 175-182
ErrorAfterSearchFailure(req) ==
    IF Len(req.allCountries) > 0 THEN error ELSE SearchError

-----------------------------------------------------------------------------
(* CountryDetail: the state and the fetchCountry effect, part_003:37-68;   *)
(* the other CountryDetail source has the same code, part_002:8-39         *)

\* the codes the route can carry; "" is a route without code
RouteCodes == {"", "AA", "BB"}

\* the route before the component is mounted
NoRoute == "none"

\* the model stops navigating when MaxFetches requests were issued
MaxFetches == 3

NoCountry == "null"
CodeRequired == "Country code is required"
DetailError == "Failed to fetch country"

\* useState initial values, lines 40-42
DetailInit ==
    /\ dCode = NoRoute
    /\ dCountry = NoCountry
    /\ dLoading = TRUE
    /\ dError = NoError
    /\ dInflight = <<>>
    /\ dIssued = 0
    /\ dOutcome = "none"

-----------------------------------------------------------------------------
(* State after construction *)

HookInit ==
    /\ countries = <<>>
    /\ allCountries = <<>>
    /\ loading = FALSE
    /\ error = NoError
    /\ page = 1
    /\ hasMore = TRUE
    /\ isSearching = FALSE
    /\ currentFilters = EmptyObject
    /\ loadingRef = FALSE
    /\ useInfiniteScroll = TRUE
    /\ homeFilters = EmptyObject
    /\ currentSearchTerm = <<>>
    /\ mounted = FALSE
    /\ inflight = <<>>
    /\ issued = [pages |-> 0, searches |-> 0]
    /\ lastDone = NoEvent

Init == HookInit /\ FilterIdle /\ ParseIdle /\ ClockIdle /\ DetailInit

homeVars == <<useInfiniteScroll, homeFilters, currentSearchTerm>>

-----------------------------------------------------------------------------
(* The answers of the backend: the continuations after the awaits *)

\* a slip: the flag is cleared on success only, not in a finally block
LoadingRefLeftSet == loadingRef

\* loadingRef.current after a failed await: cleared by the finally block,
\* lines 133-136 and 183-186
LoadingRefInFinally == FALSE

\* loadCountries after a successful await, lines 107-128 and 133-136
PageResponseOk(i) ==
    /\ i \in 1..Len(inflight)
    /\ inflight[i].kind = "page"
    /\ LET req == inflight[i]
           newCountries == BackendPage(req.pageNum)
           updatedCountries == CountriesAfterLoad(req, newCountries)
       IN  /\ countries' = updatedCountries
           /\ allCountries' = updatedCountries
           /\ hasMore' = (Len(newCountries) = PageLimit)
           /\ lastDone' = [ev |-> "pageOk", pageNum |-> req.pageNum,
                           append |-> req.append]
    /\ loading' = FALSE
    /\ loadingRef' = FALSE
    /\ inflight' = RemoveAt(inflight, i)
    /\ UNCHANGED <<error, page, isSearching, currentFilters, issued, mounted,
                   homeVars, callVars>>

\* loadCountries after a failed await, lines 129-136
PageResponseFail(i) ==
    /\ i \in 1..Len(inflight)
    /\ inflight[i].kind = "page"
    /\ error' = FetchError
    /\ loading' = FALSE
    /\ loadingRef' = LoadingRefInFinally
    /\ lastDone' = [ev |-> "pageFail", pageNum |-> inflight[i].pageNum,
                    append |-> inflight[i].append]
    /\ inflight' = RemoveAt(inflight, i)
    /\ UNCHANGED <<countries, allCountries, hasMore, page, isSearching,
                   currentFilters, issued, mounted, homeVars, callVars>>

\* search after a successful await, lines 154-171 and 183-186
SearchResponseOk(i, searchResults) ==
    /\ i \in 1..Len(inflight)
    /\ inflight[i].kind = "search"
    /\ countries' = CountriesAfterSearch(inflight[i], searchResults)
    /\ hasMore' = FALSE
    /\ loading' = FALSE
    /\ loadingRef' = FALSE
    /\ lastDone' = [ev |-> "searchOk", params |-> inflight[i].params,
                    results |-> searchResults]
    /\ inflight' = RemoveAt(inflight, i)
    /\ UNCHANGED <<allCountries, error, page, isSearching, currentFilters,
                   issued, mounted, homeVars, callVars>>

\* search after a failed await, lines 172-186
SearchResponseFail(i) ==
    /\ i \in 1..Len(inflight)
    /\ inflight[i].kind = "search"
    /\ countries' = CountriesAfterSearchFailure(inflight[i])
    /\ error' = ErrorAfterSearchFailure(inflight[i])
    /\ loading' = FALSE
    /\ loadingRef' = LoadingRefInFinally
    /\ lastDone' = [ev |-> "searchFail", params |-> inflight[i].params,
                    before |-> countries]
    /\ inflight' = RemoveAt(inflight, i)
    /\ UNCHANGED <<allCountries, hasMore, page, isSearching, currentFilters,
                   issued, mounted, homeVars, callVars>>

-----------------------------------------------------------------------------
(* Home, Home.tsx:10-361 *)

\* the early return of Home, lines 141-149: only the Error component, with
\* its retry button, is rendered
ErrorView == error # NoError /\ ~loading /\ Len(countries) = 0

\* hasActiveFilters, lines 151-152
HasActiveFilters ==
    DOMAIN homeFilters # {} \/ Trim(currentSearchTerm) # <<>>

\* whether the handlers' common tail calls search (else it calls reset)
CallsSearch(filters, term) == Trim(term) # <<>> \/ DOMAIN filters # {}

\* the common tail of handleSearch, handleRegionFilter and
\* handleTimezoneFilter: lines 40-55, 73-84, 104-118
Dispatch(filters, term) ==
    IF Trim(term) # <<>>
    THEN /\ Search(SearchParamsFor(filters, term))
         /\ lastDone' = [ev |-> "call", op |-> "search",
                         accepted |-> ~SearchBlocked]
    ELSE IF DOMAIN filters # {}
    THEN /\ Search(filters)
         /\ lastDone' = [ev |-> "call", op |-> "search",
                         accepted |-> ~SearchBlocked]
    ELSE /\ Reset
         /\ lastDone' = [ev |-> "call", op |-> "reset", accepted |-> TRUE]

\* the model stops issuing requests at MaxRequests
RequestsLeft == issued.pages + issued.searches < MaxRequests
SearchBudget(filters, term) ==
    (CallsSearch(filters, term) /\ ~SearchBlocked) => RequestsLeft
LoadBudget == LoadMoreAllowed => RequestsLeft

\* useEffect(() => { loadCountries(1, false) }, []), useCountries.ts:208-210
MountEffect ==
    /\ ~mounted
    /\ mounted' = TRUE
    /\ LoadCountries(1, FALSE)
    /\ lastDone' = [ev |-> "call", op |-> "mount", accepted |-> ~LoadBlocked]
    /\ UNCHANGED <<countries, allCountries, page, hasMore, isSearching,
                   currentFilters, homeVars, callVars>>

\* handleSearch(searchTerm), lines 36-58
HandleSearch(searchTerm) ==
    /\ mounted /\ ~ErrorView
    /\ SearchBudget(homeFilters, searchTerm)
    /\ currentSearchTerm' = searchTerm
    /\ Dispatch(homeFilters, searchTerm)
    /\ UNCHANGED <<homeFilters, useInfiniteScroll, mounted, callVars>>

\* handleRegionFilter(region), lines 60-87
HandleRegionFilter(region) ==
    LET newFilters == IF region # <<>>
                      THEN With(homeFilters, "region", region)
                      ELSE Without(homeFilters, "region")
    IN  /\ mounted /\ ~ErrorView
        /\ SearchBudget(newFilters, currentSearchTerm)
        /\ homeFilters' = newFilters
        /\ Dispatch(newFilters, currentSearchTerm)
        /\ UNCHANGED <<currentSearchTerm, useInfiniteScroll, mounted,
                       callVars>>

\* handleTimezoneFilter(timezone), lines 89-121
HandleTimezoneFilter(timezone) ==
    LET newFilters == IF Trim(timezone) # <<>>
                      THEN With(homeFilters, "timezone", timezone)
                      ELSE Without(homeFilters, "timezone")
    IN  /\ mounted /\ ~ErrorView
        /\ SearchBudget(newFilters, currentSearchTerm)
        /\ homeFilters' = newFilters
        /\ Dispatch(newFilters, currentSearchTerm)
        /\ UNCHANGED <<currentSearchTerm, useInfiniteScroll, mounted,
                       callVars>>

\* the IntersectionObserver callback on the last card, lines 19-34 and
\* 300-307: attached only while not loading and in infinite-scroll mode
ObserverIntersects ==
    /\ mounted /\ ~ErrorView
    /\ useInfiniteScroll /\ ~loading /\ Len(countries) > 0
    /\ hasMore
    /\ LoadBudget
    /\ LoadMore
    /\ lastDone' = [ev |-> "call", op |-> "loadMore",
                    accepted |-> LoadMoreAllowed,
                    before |-> [page |-> page, countries |-> countries,
                                issued |-> issued]]
    /\ UNCHANGED <<homeVars, mounted, callVars>>

\* handleLoadMore on the "Load More Countries" button, lines 123-127 and
\* 246-250: rendered without infinite scroll, disabled while loading
HandleLoadMore ==
    /\ mounted /\ ~ErrorView
    /\ ~useInfiniteScroll /\ hasMore /\ Len(countries) > 0 /\ ~loading
    /\ LoadBudget
    /\ LoadMore
    /\ lastDone' = [ev |-> "call", op |-> "loadMore",
                    accepted |-> LoadMoreAllowed,
                    before |-> [page |-> page, countries |-> countries,
                                issued |-> issued]]
    /\ UNCHANGED <<homeVars, mounted, callVars>>

\* toggleScrollMode, lines 129-131
ToggleScrollMode ==
    /\ mounted /\ ~ErrorView
    /\ useInfiniteScroll' = ~useInfiniteScroll
    /\ UNCHANGED <<countries, allCountries, loading, error, page, hasMore,
                   isSearching, currentFilters, loadingRef, homeFilters,
                   currentSearchTerm, mounted, inflight, issued, lastDone,
                   callVars>>

\* clearAllFilters, lines 133-137; its buttons (lines 198-203, 336-343) are
\* rendered only with active filters
ClearAllFilters ==
    /\ mounted /\ ~ErrorView
    /\ HasActiveFilters
    /\ homeFilters' = EmptyObject
    /\ currentSearchTerm' = <<>>
    /\ Reset
    /\ lastDone' = [ev |-> "call", op |-> "clearAll", accepted |-> TRUE]
    /\ UNCHANGED <<useInfiniteScroll, mounted, callVars>>

\* <Error message={error} onRetry={reset} />, line 145
Retry ==
    /\ mounted /\ ErrorView
    /\ Reset
    /\ lastDone' = [ev |-> "call", op |-> "retry", accepted |-> TRUE]
    /\ UNCHANGED <<homeVars, mounted, callVars>>

Next ==
    \/ MountEffect
    \/ ObserverIntersects
    \/ HandleLoadMore
    \/ ToggleScrollMode
    \/ \E searchTerm \in SearchTerms : HandleSearch(searchTerm)
    \/ \E region \in RegionChoices : HandleRegionFilter(region)
    \/ \E timezone \in TimezoneChoices : HandleTimezoneFilter(timezone)
    \/ ClearAllFilters
    \/ Retry
    \/ \E i \in 1..Len(inflight) : PageResponseOk(i)
    \/ \E i \in 1..Len(inflight) : PageResponseFail(i)
    \/ \E i \in 1..Len(inflight), searchResults \in BackendSearchResults :
            SearchResponseOk(i, searchResults)
    \/ \E i \in 1..Len(inflight) : SearchResponseFail(i)

Spec == Init /\ [][Next]_vars

\* every request is answered or times out (axios timeout, countries.ts:7);
\* nothing obliges the user to act
FairSpec ==
    /\ Spec
    /\ WF_vars(\E i \in 1..Len(inflight) : PageResponseOk(i) \/ PageResponseFail(i))
    /\ WF_vars(\E i \in 1..Len(inflight) :
                  \/ SearchResponseFail(i)
                  \/ \E searchResults \in BackendSearchResults :
                        SearchResponseOk(i, searchResults))

-----------------------------------------------------------------------------
(* filterCountries applied once to the drawn inputs *)

ApplyFilter ==
    /\ fpc = "input"
    /\ fResult' = FilterCountries(fCountries, fFilters)
    /\ fpc' = "done"
    /\ UNCHANGED <<fCountries, fFilters, hookVars, parseVars, clockVars,
                   detailVars>>

FilterInit ==
    HookInit /\ FilterInputInit /\ ParseIdle /\ ClockIdle /\ DetailInit
FilterNext == ApplyFilter
FilterSpec == FilterInit /\ [][FilterNext]_vars

-----------------------------------------------------------------------------
(* parseUtcOffsetMinutes applied once to the drawn string *)

ParseOffset ==
    /\ ppc = "input"
    /\ pResult' = ParseUtcOffsetMinutes(pOffset)
    /\ ppc' = "done"
    /\ UNCHANGED <<pOffset, hookVars, filterVars, clockVars, detailVars>>

ParseInit ==
    HookInit /\ FilterIdle /\ ParseInputInit /\ ClockIdle /\ DetailInit
ParseNext == ParseOffset
ParseSpec == ParseInit /\ [][ParseNext]_vars

-----------------------------------------------------------------------------
(* The local time of the drawn country rendered once by one of the views *)

CountryCardEffect ==
    /\ cpc = "input"
    /\ cShown' = <<CardLocalTime(cCountry, cNow, cHost)>>
    /\ cpc' = "card"
    /\ UNCHANGED <<cCountry, cNow, cHost, hookVars, filterVars, parseVars,
                   detailVars>>

CountryDetailRender ==
    /\ cpc = "input"
    /\ cShown' = DetailLocalTimes(cCountry, cNow, cHost)
    /\ cpc' = "detail"
    /\ UNCHANGED <<cCountry, cNow, cHost, hookVars, filterVars, parseVars,
                   detailVars>>

CountryDetailRenderBare ==
    /\ cpc = "input"
    /\ cShown' = DetailLocalTimesBare(cCountry, cNow, cHost)
    /\ cpc' = "detailBare"
    /\ UNCHANGED <<cCountry, cNow, cHost, hookVars, filterVars, parseVars,
                   detailVars>>

ClockInit ==
    HookInit /\ FilterIdle /\ ParseIdle /\ ClockInputInit /\ DetailInit
ClockNext ==
    \/ CountryCardEffect
    \/ CountryDetailRender
    \/ CountryDetailRenderBare
ClockSpec == ClockInit /\ [][ClockNext]_vars

-----------------------------------------------------------------------------
(* CountryDetail under changes of the route's code *)

\* the component is mounted on, or the route changes to, another code: the
\* effect of lines 44-68 runs up to its await
Navigate(code) ==
    /\ code # dCode
    /\ code # "" => dIssued < MaxFetches
    /\ dCode' = code
    /\ dOutcome' = "none"
    /\ IF code = ""
       THEN /\ dError' = CodeRequired
            /\ dLoading' = FALSE
            /\ UNCHANGED <<dInflight, dIssued>>
       ELSE /\ dLoading' = TRUE
            /\ dError' = NoError
            /\ dInflight' = Append(dInflight,
                                   [code |-> code, seq |-> dIssued + 1])
            /\ dIssued' = dIssued + 1
    /\ UNCHANGED <<dCountry, hookVars, filterVars, parseVars, clockVars>>

\* how the request for the present code ended, once req has settled
OutcomeAfter(req, outcome) ==
    IF req.seq = dIssued /\ req.code = dCode THEN outcome ELSE dOutcome

\* fetchCountry after a successful await, lines 56-57 and 62-64
GetCountryOk(i) ==
    /\ i \in 1..Len(dInflight)
    /\ dCountry' = dInflight[i].code
    /\ dLoading' = FALSE
    /\ dOutcome' = OutcomeAfter(dInflight[i], "ok")
    /\ dInflight' = RemoveAt(dInflight, i)
    /\ UNCHANGED <<dCode, dError, dIssued, hookVars, filterVars, parseVars,
                   clockVars>>

\* fetchCountry after a failed await, lines 58-64
GetCountryFail(i) ==
    /\ i \in 1..Len(dInflight)
    /\ dError' = DetailError
    /\ dLoading' = FALSE
    /\ dOutcome' = OutcomeAfter(dInflight[i], "fail")
    /\ dInflight' = RemoveAt(dInflight, i)
    /\ UNCHANGED <<dCode, dCountry, dIssued, hookVars, filterVars, parseVars,
                   clockVars>>

DetailSpecInit == HookInit /\ FilterIdle /\ ParseIdle /\ ClockIdle /\ DetailInit
DetailNext ==
    \/ \E code \in RouteCodes : Navigate(code)
    \/ \E i \in 1..Len(dInflight) : GetCountryOk(i)
    \/ \E i \in 1..Len(dInflight) : GetCountryFail(i)
DetailSpec == DetailSpecInit /\ [][DetailNext]_vars

-----------------------------------------------------------------------------
(* Properties of the hook under Home *)

PageFetchPending == \E i \in 1..Len(inflight) : inflight[i].kind = "page"

NoDuplicates(list) ==
    \A i, j \in 1..Len(list) : i # j => list[i] # list[j]

\* codes strictly ascending: the backend's pages are in code order, so this
\* is the pages 1..k in ascending page order with no record twice
Ascending(list) ==
    \A i \in 1..(Len(list) - 1) : list[i] < list[i + 1]

\* C1: at most one page-load or search request of the hook is outstanding
\* at any time, whatever the interleaving of the mount effect, loadMore,
\* search, reset and the answers.
C1_AtMostOneOutstanding == Len(inflight) <= 1

\* C1 witness: a search was called while a request was in flight, and was
\* turned away.
C1_SearchTurnedAway ==
    /\ Len(inflight) = 1
    /\ lastDone.ev = "call"
    /\ lastDone.op = "search"
    /\ ~lastDone.accepted

\* C2: with disjoint backend pages, neither the displayed list nor the
\* cached full list ever holds a record twice, and the cached pages are in
\* ascending page order.
C2_NoDuplicateOrOutOfOrderAppend ==
    /\ NoDuplicates(countries)
    /\ NoDuplicates(allCountries)
    /\ Ascending(allCountries)

\* C3: after a successful search the displayed list is
\* filterCountries(allCountries, criteria) when the criteria hold a timezone
\* and the backend gave no row, and exactly the backend's rows otherwise.
C3_SearchSuccessShows ==
    lastDone.ev = "searchOk" =>
        countries =
            IF Truthy(lastDone.params, "timezone") /\ lastDone.results = <<>>
            THEN Codes(FilterCountries(Records(allCountries), lastDone.params))
            ELSE lastDone.results

\* C3 witness: a timezone search got no row from the backend and the local
\* filter over the cached pages found some.
C3_TimezoneFallbackFound ==
    /\ lastDone.ev = "searchOk"
    /\ Truthy(lastDone.params, "timezone")
    /\ lastDone.results = <<>>
    /\ countries # <<>>
    /\ countries # allCountries

\* C4 as claimed: after a failed search the displayed list is
\* filterCountries(allCountries, criteria), for every criteria.
C4_FailedSearchShowsLocalFilter ==
    lastDone.ev = "searchFail" =>
        countries = Codes(FilterCountries(Records(allCountries),
                                          lastDone.params))

\* C4 amended: after a failed search the displayed list is
\* filterCountries(allCountries, criteria) when the cached full list is not
\* empty; when it is empty the displayed list is left as it was and the
\* error is set.
C4_FailedSearchFallsBackOrReports ==
    lastDone.ev = "searchFail" =>
        IF allCountries # <<>>
        THEN countries = Codes(FilterCountries(Records(allCountries),
                                               lastDone.params))
        ELSE countries = lastDone.before /\ error = SearchError

\* C4 witness: a search failed with pages cached, and the local filter kept
\* some records and dropped others.
C4_FailedSearchFiltered ==
    /\ lastDone.ev = "searchFail"
    /\ allCountries # <<>>
    /\ countries # <<>>
    /\ Len(countries) < Len(allCountries)

\* C5: once a failed page load or a failed search has completed, the error
\* is set and Home renders the error view with its retry button.
C5_FailureReachesTheUser ==
    lastDone.ev \in {"pageFail", "searchFail"} =>
        error # NoError /\ ErrorView

\* the retry button was pressed in the error view of the failed initial
\* load, the only request issued so far
RetriedAfterInitialFailure ==
    /\ lastDone.ev = "call"
    /\ lastDone.op = "retry"
    /\ issued.pages = 1
    /\ issued.searches = 0

\* C6: after the initial page load has failed, pressing retry eventually
\* leads to a new page fetch being issued.
C6_RetryLeadsToPageFetch == RetriedAfterInitialFailure ~> PageFetchPending

\* Beyond C6: whatever the user does after the initial load has failed, the
\* hook issues no page fetch again (a page fetch other than the mount
\* effect's needs a card or the Load More button, hence a loaded page).
NoPageFetchWithoutCache ==
    PageFetchPending => (issued.pages = 1 \/ allCountries # <<>>)

\* C19: when a search has completed, by backend results, by the zero-result
\* fallback or by the failure fallback, hasMore is false; and a loadMore in
\* search mode issues no request and leaves page and list as they were.
C19_SearchEndsPagination ==
    /\ lastDone.ev \in {"searchOk", "searchFail"} => ~hasMore
    /\ (lastDone.ev = "call" /\ lastDone.op = "loadMore" /\ isSearching) =>
          /\ page = lastDone.before.page
          /\ countries = lastDone.before.countries
          /\ issued = lastDone.before.issued

\* C20: under fairness of the backend's answers, every accepted page load
\* or search (loadingRef set) is followed by a state with loading false and
\* loadingRef cleared, in which the next loadMore or search is not turned
\* away by the guard.
C20_AcceptedRequestSettles ==
    loadingRef ~> (~loadingRef /\ ~loading /\ ~SearchBlocked /\ ~LoadBlocked)

\* C20 witness: after the first search failed, a second search was accepted
\* and has settled too.
C20_SecondSearchSettled ==
    /\ issued.searches = 2
    /\ lastDone.ev = "searchFail"
    /\ error = NoError
    /\ ~loadingRef /\ ~loading
    /\ inflight = <<>>

\* the criteria Home's handlers hand to search for the present search term
\* and filters
HomeCriteria ==
    IF Trim(currentSearchTerm) # <<>>
    THEN SearchParamsFor(homeFilters, currentSearchTerm)
    ELSE homeFilters

\* C21: whenever no request is in flight and Home holds a search term or a
\* filter, the hook is in search mode for exactly these criteria and the
\* displayed list is an outcome of that search: a change made while another
\* request was in flight is not lost.
C21_LatestCriteriaSearched ==
    (mounted /\ inflight = <<>> /\ HasActiveFilters) =>
        /\ isSearching
        /\ currentFilters = HomeCriteria
        /\ \/ countries \in BackendSearchResults
           \/ countries = FilterCodes(allCountries, HomeCriteria)
           \/ allCountries = <<>>

\* C22: after reset (from a handler with nothing to search for, Clear All
\* or the retry button) and once no request is in flight, the hook is in
\* browse mode with the displayed list equal to allCountries, hasMore true
\* and isSearching false; this also holds when the answer of a search
\* arrives after the reset (isSearching, set by every accepted search, is
\* then false when the answer arrives).
C22_ResetStateSurvives ==
    (inflight = <<>>
        /\ \/ lastDone.ev = "call"
              /\ lastDone.op \in {"reset", "clearAll", "retry"}
           \/ lastDone.ev \in {"searchOk", "searchFail"} /\ ~isSearching) =>
        /\ countries = allCountries
        /\ hasMore
        /\ ~isSearching

\* every record of the backend's pages before pageNum is in the list
HoldsPagesBefore(list, pageNum) ==
    \A q \in 1..(pageNum - 1) :
        \A k \in 1..Len(BackendPage(q)) :
            \E j \in 1..Len(list) : list[j] = BackendPage(q)[k]

\* C23: a failed page load does not advance the pagination position: an
\* accepted loadMore asks for the page that follows the pages in the cache,
\* and no page is ever skipped in the cached list nor in the displayed list
\* a page load leaves.
C23_NoPageSkipped ==
    /\ (lastDone.ev = "call" /\ lastDone.op = "loadMore"
          /\ lastDone.accepted) =>
            HoldsPagesBefore(allCountries, page)
    /\ \A j \in 1..Len(allCountries) :
          HoldsPagesBefore(allCountries,
                           ((allCountries[j] - 1) \div PageLimit) + 1)
    /\ lastDone.ev = "pageOk" =>
          \A j \in 1..Len(countries) :
              HoldsPagesBefore(countries,
                               ((countries[j] - 1) \div PageLimit) + 1)

-----------------------------------------------------------------------------
(* Properties of filterCountries *)

\* the predicates of the criteria, each demanded of the record when its
\* field is present: name and capital by case-insensitive containment (a
\* record without capital fails), region by equality, timezone by some entry
\* of the record matching
SatisfiesEveryActivePredicate(country, filters) ==
    /\ Truthy(filters, "name") =>
          Includes(ToLowerCase(country.name), ToLowerCase(filters.name))
    /\ Truthy(filters, "capital") =>
          /\ Truthy(country, "capital")
          /\ Includes(ToLowerCase(country.capital),
                      ToLowerCase(filters.capital))
    /\ Truthy(filters, "region") => country.region = filters.region
    /\ Truthy(filters, "timezone") =>
          \E k \in 1..Len(country.timezones) :
              TimezoneEntryMatches(country.timezones[k],
                                   Trim(ToLowerCase(filters.timezone)))

\* C7: the result holds a record iff the record satisfies every active
\* predicate (AND across name, capital, region, timezone).
C7_IncludedIffEveryPredicate ==
    fpc = "done" =>
        fResult = SelectSeq(fCountries,
                     LAMBDA country :
                        SatisfiesEveryActivePredicate(country, fFilters))

\* C8: with a capital criterion, no record without capital (absent or
\* empty) is in the result.
C8_NoCapitalExcluded ==
    (fpc = "done" /\ Truthy(fFilters, "capital")) =>
        \A i \in 1..Len(fResult) : Truthy(fResult[i], "capital")

\* C9: with a timezone criterion, no record with an empty timezones list is
\* in the result.
C9_EmptyTimezonesExcluded ==
    (fpc = "done" /\ Truthy(fFilters, "timezone")) =>
        \A i \in 1..Len(fResult) : Len(fResult[i].timezones) > 0

IsUtc01(s) == Trim(ToLowerCase(s)) = ToLowerCase(tz_UTC01)
IsUtc0100(s) == Trim(ToLowerCase(s)) = ToLowerCase(tz_UTC0100)

\* C10: with criteria {timezone: "UTC+01"}, in any letter case and with
\* surrounding white space, every record one of whose timezones entries (the
\* first or a later one) is "UTC+01:00", in any letter case and with
\* surrounding white space, is in the result.
C10_Utc01MatchesUtc0100 ==
    (fpc = "done" /\ DOMAIN fFilters = {"timezone"}
        /\ IsUtc01(fFilters.timezone)) =>
        \A i \in 1..Len(fCountries) :
            (\E k \in 1..Len(fCountries[i].timezones) :
                IsUtc0100(fCountries[i].timezones[k]))
            => \E j \in 1..Len(fResult) : fResult[j] = fCountries[i]

\* C10 witness: the padded lower-case criterion kept a record whose second
\* entry is "UTC+01:00" and one whose entry is padded and in mixed case.
C10_LaterAndPaddedEntriesKept ==
    /\ fpc = "done"
    /\ fFilters = MkObject([timezone |-> <<tz_utc01_padded>>])
    /\ Len(fResult) = 2
    /\ fResult[1].timezones = <<tz_UTC0200, tz_UTC0100>>
    /\ fResult[2].timezones = <<tz_utc0100_padded>>

IsUtc0100Compact(s) == Trim(ToLowerCase(s)) = ToLowerCase(tz_UTC0100_compact)

\* the comparison key rule (c) computes for a timezone string
RuleCKey(s) == TimezoneOffset(Trim(ToLowerCase(s)))

\* the "UTC+01:00" entries of the input records
Utc0100Entries ==
    UNION { { <<i, k>> : k \in { n \in 1..Len(fCountries[i].timezones) :
                                    IsUtc0100(fCountries[i].timezones[n]) } } :
            i \in 1..Len(fCountries) }

\* C11 as stated: the normalization of rule (c) yields equal comparison keys
\* for "UTC+01" and "UTC+01:00", so that rule (c) matches the pair on its
\* own.
C11_RuleCKeysEqual ==
    (fpc = "done" /\ Truthy(fFilters, "timezone")
        /\ IsUtc01(fFilters.timezone)) =>
        \A e \in Utc0100Entries :
            RuleCKey(fFilters.timezone)
                = RuleCKey(fCountries[e[1]].timezones[e[2]])

\* C11 amended: for "UTC+01" and "UTC+01:00" the keys of rule (c) are "+01"
\* and "+0100", which differ, and the pair is matched by the substring rule;
\* for "UTC+0100" and "UTC+01:00" neither string contains the other, the
\* keys are equal, and rule (c) keeps the record.
C11_PairMatchedBySubstringRule ==
    (fpc = "done" /\ DOMAIN fFilters = {"timezone"}) =>
        \A e \in Utc0100Entries :
            LET f == Trim(ToLowerCase(fFilters.timezone))
                c == Trim(ToLowerCase(fCountries[e[1]].timezones[e[2]]))
            IN  /\ IsUtc01(fFilters.timezone) =>
                    /\ TimezoneOffset(f) = <<"+","0","1">>
                    /\ TimezoneOffset(c) = <<"+","0","1","0","0">>
                    /\ Includes(c, f)
                /\ IsUtc0100Compact(fFilters.timezone) =>
                    /\ ~Includes(c, f) /\ ~Includes(f, c)
                    /\ TimezoneOffset(f) = TimezoneOffset(c)
                    /\ \E j \in 1..Len(fResult) :
                           fResult[j] = fCountries[e[1]]

\* C11 witness: the criterion "UTC+01" kept a record whose only entry is
\* "UTC+01:00" although the two keys of rule (c) differ.
C11_KeptWithDifferentKeys ==
    /\ fpc = "done"
    /\ fFilters = MkObject([timezone |-> <<tz_UTC01>>])
    /\ Len(fResult) = 1
    /\ fResult[1].timezones = <<tz_UTC0100>>
    /\ RuleCKey(tz_UTC01) # RuleCKey(tz_UTC0100)

\* a is b with some elements left out, the others in their order
RECURSIVE IsSubsequence(_, _)
IsSubsequence(a, b) ==
    IF a = <<>> THEN TRUE
    ELSE IF b = <<>> THEN FALSE
    ELSE IF Head(a) = Head(b) /\ IsSubsequence(Tail(a), Tail(b)) THEN TRUE
    ELSE IsSubsequence(a, Tail(b))

\* C12: the result of filterCountries is the input with some records left
\* out (none added, duplicated or reordered), and with criteria {region: r}
\* it holds exactly the records whose region equals r, letter case included.
C12_SubsequenceAndExactRegion ==
    fpc = "done" =>
        /\ IsSubsequence(fResult, fCountries)
        /\ DOMAIN fFilters = {"region"} =>
              fResult = SelectSeq(fCountries,
                           LAMBDA country : country.region = fFilters.region)

\* C12 witness: with {region: "Asia"} the record of region "asia" was left
\* out and the record of region "Asia" behind it was kept.
C12_LowerCaseRegionLeftOut ==
    /\ fpc = "done"
    /\ fFilters = MkObject([region |-> <<str_Asia>>])
    /\ Len(fCountries) = 2
    /\ fCountries[1].region = str_asia
    /\ fCountries[2].region = str_Asia
    /\ fResult = <<fCountries[2]>>

\* C13: with a criteria record that holds no name, capital, region or
\* timezone, filterCountries returns its input list unchanged.
C13_EmptyCriteriaIdentity ==
    (fpc = "done" /\ DOMAIN fFilters = {}) => fResult = fCountries

\* C13 witness: without criteria two different records, one of them with no
\* capital and no timezone, came back in their order.
C13_TwoRecordsUnchanged ==
    /\ fpc = "done"
    /\ fFilters = EmptyObject
    /\ Len(fResult) = 2
    /\ fResult = fCountries
    /\ fResult[1] # fResult[2]
    /\ ~Truthy(fResult[1], "capital")
    /\ fResult[1].timezones = <<>>

-----------------------------------------------------------------------------
(* Properties of parseUtcOffsetMinutes *)

\* C14: "UTC", "GMT" and "Z", in any letter case and with white space
\* around, give 0; a string written as [UTC|GMT], sign, one or two hour
\* digits and optionally [colon and] two minute digits gives
\* sign * (hours * 60 + minutes), whatever the size of hours and minutes.
C14_ParsesWrittenOffsets ==
    ppc = "done" =>
        LET str == ToUpperCase(Trim(pOffset))
        IN  /\ str \in {UTC, GMT, Zulu} => pResult = Number(0)
            /\ \A f \in OffsetForms :
                   str = FormString(f) => pResult = Number(FormMinutes(f))

\* C14 witness: " utc-08:00" in lower case gave -480.
C14_NegativeOffsetParsed ==
    /\ ppc = "done"
    /\ pOffset = ToLowerCase(tz_UTC_minus_0800)
    /\ pResult = Number(0 - 480)

\* at most one leading "UTC" or "GMT" taken off
StripOnePrefix(str) ==
    IF StartsWith(str, UTC) \/ StartsWith(str, GMT) THEN Slice(str, 3)
    ELSE str

\* a sign, then one to four digits, or one or two digits, a colon and two
\* digits
HasOffsetShape(rem) ==
    /\ Len(rem) >= 2
    /\ rem[1] \in {"+", "-"}
    /\ LET body == Tail(rem)
           colons == {i \in 1..Len(body) : body[i] = ":"}
       IN  /\ \A i \in (1..Len(body)) \ colons : IsDigit(body[i])
           /\ \/ colons = {} /\ Len(body) <= 4
              \/ \E at \in {2, 3} : colons = {at} /\ Len(body) = at + 2

\* C15: when what is left after the prefix is taken off is not empty and
\* does not have the shape of an offset, the result is null.
C15_OtherShapesAreInvalid ==
    ppc = "done" =>
        LET str == ToUpperCase(Trim(pOffset))
            rem == StripOnePrefix(str)
        IN  (str \notin {UTC, GMT, Zulu} /\ rem # <<>> /\ ~HasOffsetShape(rem))
                => pResult = Null

\* C16: a string with two prefixes one after the other ("UTCGMT+05",
\* "UTCGMT") is invalid: only one prefix is taken off.
C16_StackedPrefixesAreInvalid ==
    ppc = "done" =>
        LET str == ToUpperCase(Trim(pOffset))
            rem == StripOnePrefix(str)
        IN  (rem # str /\ (StartsWith(rem, UTC) \/ StartsWith(rem, GMT)))
                => pResult = Null

-----------------------------------------------------------------------------
(* Properties of timeForOffset and of the views that call it *)

\* the minute of the day a displayed time stands for
ShownMinuteOfDay(value) ==
    ((value.hour % 12) + (IF value.period = "PM" THEN 12 ELSE 0)) * 60
        + value.minute

\* the minute of the day in UTC at the instant ms, advanced by m minutes
UtcMinuteOfDayAdvanced(ms, m) == ((ms \div MsPerMinute) + m) % (24 * 60)

\* C17: whatever the host's time zone, a time displayed for a timezone
\* string that parses to m minutes is the UTC time of day of the current
\* instant advanced by m minutes, modulo 24 hours.
C17_ShowsUtcTimeAdvancedByOffset ==
    cpc \in {"card", "detail", "detailBare"} =>
        \A k \in 1..Len(cShown) :
            cShown[k].text = "time" =>
                ShownMinuteOfDay(cShown[k])
                    = UtcMinuteOfDayAdvanced(cNow,
                          ParseUtcOffsetMinutes(cCountry.timezones[k]).minutes)

\* the timezone string does not parse
Unparsable(tz) == ~ParseUtcOffsetMinutes(tz).valid

\* C18: in every view a timezone string that does not parse is shown as
\* "N/A", and so is a missing first timezone in the card; no slot is empty.
C18_InvalidTimezoneShowsNA ==
    /\ cpc = "card" =>
          /\ Len(cShown) = 1
          /\ cShown[1].text # ""
          /\ (TimezonesOf(cCountry) = <<>>
                 \/ Unparsable(TimezonesOf(cCountry)[1]))
                => cShown[1].text = "N/A"
    /\ cpc \in {"detail", "detailBare"} =>
          \A k \in 1..Len(cShown) :
              /\ cShown[k].text # ""
              /\ Unparsable(cCountry.timezones[k]) => cShown[k].text = "N/A"

-----------------------------------------------------------------------------
(* Properties of CountryDetail *)

\* C24: once every getCountry request has settled, the view holds what the
\* request for the present route code gave: its country and no error when
\* it succeeded, its error when it failed; a late answer for an earlier code
\* has not overwritten either.
C24_ShowsCountryOfCurrentCode ==
    (dInflight = <<>> /\ dCode \in RouteCodes \ {""}) =>
        /\ ~dLoading
        /\ dOutcome = "ok" => (dCountry = dCode /\ dError = NoError)
        /\ dOutcome = "fail" => dError = DetailError

====
